---- MODULE Spec2Model ----
(***************************************************************************)
(* A model of these parts of memflow:                                      *)
(*   - the legacy process walker  (flow-win32/src/win/process.rs),         *)
(*   - the x86 start-block scanner (memflow-win32/.../lowstub/x86.rs),     *)
(*   - the process constructors   (flow-win32/src/win32/process.rs),       *)
(*   - the legacy first_peb_entry (flow-win32/src/win/process.rs),         *)
(*   - the process lookup by name (flow-win32/src/win32/process.rs),       *)
(*   - the module list walk       (flow-win32/src/win32/process.rs),       *)
(*   - the connector create function (memflow-derive/src/lib.rs).          *)
(* Each part has its own specification; the variables of the other parts   *)
(* stay at their initial values.                                           *)
(***************************************************************************)
EXTENDS Integers, Sequences, FiniteSets, TLC

VARIABLES
    \* ---- legacy process walker (win/process.rs) ----
    mem,             \* target memory: the Blink field of every EPROCESS
    pdb_ok,          \* Windows.kernel_pdb is present and resolves the fields
    links,           \* offset of _EPROCESS.ActiveProcessLinks (from the pdb)
    blink,           \* offset of _LIST_ENTRY.Blink (from the pdb)
    first_eprocess,  \* ProcessIterator.first_eprocess
    eprocess,        \* ProcessIterator.eprocess
    ret,             \* what the last call of next returned
    yielded,         \* the EPROCESS addresses returned so far, in order
    calls,           \* the number of calls of next so far, modulo 2
    \* ---- x86 start-block scanner (lowstub/x86.rs) ----
    window,          \* the scanned memory window, as its pages
    result,          \* what the last run of find returned
    prev,            \* what the run of find before the last returned, if any
    checked,         \* the verdicts of check_page in the last run, by page
    \* ---- process constructors (win32/process.rs, win/process.rs) ----
    win,             \* Win32: the start block (arch, dtb) and the kernel base
    offsets,         \* the injected Win32Offsets record
    call,            \* the constructor called last
    proc,            \* Result<Win32Process> of the last constructor call
    reads,           \* the virtual reads the last constructor call issued
    legacy,          \* Result<Architecture> of the last Process::type_arch
    first_peb,       \* Result<Address> of the last legacy first_peb_entry
    lreads,          \* the virtual reads the last first_peb_entry issued
    \* ---- process lookup by name (win32/process.rs) ----
    elist,           \* Result<Vec<Address>> of Win32::eprocess_list
    pmem,            \* what target memory answers to the reads of each EPROCESS
    wanted,          \* the name the last call of try_with_name looked for
    tried,           \* the EPROCESS addresses its try_with_eprocess was called on
    \* ---- module list walk (win32/process.rs) ----
    modmem,          \* process memory: the pointer stored at every list entry
    peb_module,      \* Win32Process.peb_module
    list_entry,      \* the local list_entry of peb_list
    pebs,            \* the local Vec pebs of peb_list
    peb_ret,         \* Result<Vec<Address>> of peb_list, once it returned
    iters,           \* the number of iterations of the loop so far, modulo 2
    \* ---- connector create function (memflow-derive/src/lib.rs) ----
    create_form,     \* the factory takes one argument or two (args, log level)
    args,            \* the bytes of the C string passed to mf_create
    parse_ok,        \* does ConnectorArgs::parse accept the string
    handle,          \* what the last call of mf_create returned
    trace,           \* the steps the last call of mf_create went through
    logged           \* the number of errors the last call of mf_create logged

walkVars == <<mem, pdb_ok, links, blink, first_eprocess, eprocess, ret, yielded, calls>>

scanVars == <<window, result, prev, checked>>

procVars == <<win, offsets, call, proc, reads, legacy>>

connVars == <<create_form, args, parse_ok, handle, trace, logged>>

pebVars == <<first_peb, lreads>>

nameVars == <<elist, pmem, wanted, tried>>

listVars == <<modmem, peb_module, list_entry, pebs, peb_ret, iters>>

vars == <<walkVars, scanVars, procVars, pebVars, nameVars, listVars, connVars>>

\* the variables of the other parts, which an action of one part leaves alone
notWalkVars == <<scanVars, procVars, pebVars, nameVars, listVars, connVars>>

notScanVars == <<walkVars, procVars, pebVars, nameVars, listVars, connVars>>

notProcVars == <<walkVars, scanVars, pebVars, nameVars, listVars, connVars>>

notConnVars == <<walkVars, scanVars, procVars, pebVars, nameVars, listVars>>

notNameVars == <<walkVars, scanVars, pebVars, listVars, connVars>>

notPebVars == <<walkVars, scanVars, procVars, nameVars, listVars, connVars>>

notListVars == <<walkVars, scanVars, procVars, pebVars, nameVars, connVars>>

----------------------------------------------------------------------------
(* Bounds of the model. *)

\* number of EPROCESS structures in target memory
NumProcs == 3
\* the history `yielded` stops growing at this length (the walker goes on)
MaxYield == 5
\* number of 4 KiB pages of a scanned window (the last one may be cut short)
MaxPages == 2
\* number of bytes of the argument string of mf_create
MaxArgLen == 2
\* number of module list entries in process memory
NumMods == 3
\* the Vec `pebs` stops growing at this length (the loop goes on)
MaxPebs == 4

----------------------------------------------------------------------------
(* Values. *)

\* Address::null()
Null == 0

\* a virtual read that fails (Err of virt_read_addr)
ReadErr == -1

\* the addresses of the EPROCESS structures
Eprocs == {16 * i : i \in 1..NumProcs}

\* what a Blink field can hold under ActiveProcessLinks offset l: null, a
\* pointer to the ActiveProcessLinks field of an EPROCESS, a pointer l bytes
\* above address 0, a pointer into unmapped memory, or nothing readable
LinkVals(l) == {Null} \cup {e + l : e \in Eprocs \cup {0, 8}} \cup {ReadErr}

----------------------------------------------------------------------------
(* The legacy process walker. *)

\* VirtualReader::virt_read_addr at address a: only the Blink fields of the
\* EPROCESS structures are mapped
virt_read_addr(a) ==
    IF \E e \in Eprocs : a = e + links + blink
    THEN mem[CHOOSE e \in Eprocs : a = e + links + blink]
    ELSE ReadErr

\* a walker that forgets to subtract the field offset
normalize_keep(next) == next

\* lines 59-61: a non-null link is normalised to the EPROCESS base
normalize(next) == IF next # Null THEN next - links ELSE next

\* lines 63-66: the anchor ends the walk
null_if_first(next) == IF next = first_eprocess THEN Null ELSE next

\* the history, which stops growing at MaxYield entries
Record(cur) == IF Len(yielded) < MaxYield THEN Append(yielded, cur) ELSE yielded

\* the Option<Process> a call of next returns ("panic": the call aborted)
Ret(k, a) == [kind |-> k, addr |-> a]

\* ProcessIterator::new
WalkInit ==
    /\ links \in {0, 4}
    /\ blink \in {4, 8}
    /\ mem \in [Eprocs -> LinkVals(links)]
    /\ pdb_ok \in BOOLEAN
    /\ first_eprocess \in Eprocs \cup {Null}
    /\ eprocess = first_eprocess
    /\ ret = Ret("init", Null)
    /\ yielded = <<>>
    /\ calls = 0

\* Iterator for ProcessIterator::next
ProcessIterator_next ==
    /\ ret.kind # "panic"
    /\ calls' = (calls + 1) % 2
    /\ IF eprocess = Null
       THEN /\ ret' = Ret("None", Null)
            /\ UNCHANGED <<eprocess, yielded>>
       ELSE IF ~pdb_ok
       THEN /\ ret' = Ret("None", Null)
            /\ UNCHANGED <<eprocess, yielded>>
       ELSE LET rd == virt_read_addr(eprocess + links + blink) IN
            IF rd = ReadErr
            THEN /\ ret' = Ret("panic", Null)
                 /\ UNCHANGED <<eprocess, yielded>>
            ELSE /\ eprocess' = null_if_first(normalize(rd))
                 /\ ret' = Ret("Some", eprocess)
                 /\ yielded' = Record(eprocess)
    /\ UNCHANGED <<mem, pdb_ok, links, blink, first_eprocess>>
    /\ UNCHANGED notWalkVars

\* no walker: the state of the walker while another part runs
WalkIdle ==
    /\ links = 0 /\ blink = 0 /\ pdb_ok = FALSE
    /\ mem = [e \in Eprocs |-> Null]
    /\ first_eprocess = Null /\ eprocess = Null
    /\ ret = Ret("init", Null) /\ yielded = <<>> /\ calls = 0

WalkNext == ProcessIterator_next


----------------------------------------------------------------------------
(* The x86 start-block scanner. *)

\* architecture::x86::page_size()
PageSize == 4096

\* the four bytes of the 32-bit value v, least significant first
\* (LittleEndian; also what Address::as_u32 keeps of an address)
U32Bytes(v) ==
    <<v % 256, (v \div 256) % 256, (v \div 65536) % 256, (v \div 16777216) % 256>>

\* A slice of the window is described by its first byte, the 32-bit value
\* at byte offset 0xC00, the number of entries with low byte 0x63 or 0xE3 from
\* entry index 0x80 on (byte offset 0x200) and from entry index 0x200 on (byte
\* offset 0x800), and its length in bytes.  Byte 1 of each of the entries
\* 0x200..0x2FF holds 0x63 as well; every other byte is 0.
\* Byte(m, i) is the byte m[i] of the slice, SliceLen(m) is m.len().
Byte(m, i) ==
    IF i = 0 THEN m.b0
    ELSE IF i >= 3072 /\ i < 3076 THEN U32Bytes(m.pde)[i - 3072 + 1]
    ELSE IF i % 4 = 0 /\ i >= 512 /\ i < 512 + 4 * m.cnt[1]
        THEN (IF (i \div 4) % 2 = 0 THEN 99 ELSE 227)
    ELSE IF i % 4 = 0 /\ i >= 2048 /\ i < 2048 + 4 * m.cnt[2]
        THEN (IF (i \div 4) % 2 = 0 THEN 99 ELSE 227)
    ELSE IF i % 4 = 1 /\ i >= 2048 /\ i < 3072 THEN 99
    ELSE 0

SliceLen(m) == m.len

\* the lengths of a last page that is cut short by the end of the window
ShortLens == {1, 3074, 3076}

\* the pages a window is made of (one description for every content: what
\* lies beyond the length of a short page is fixed)
PageKinds ==
    {k \in [b0 : {103, 102},
            pde : {3, PageSize + 3, 1, PageSize + 99},
            cnt : {<<0, 17>>, <<17, 16>>},
            len : {PageSize} \cup ShortLens] :
        /\ k.len < 3076 => k.pde = 3
        /\ k.len < 512 => k.cnt = <<0, 17>>}

\* the windows: up to MaxPages pages, the last of which may be cut short
Windows ==
    {<<>>} \cup
    UNION {{Append(w, k) :
                w \in [1..n -> {f \in PageKinds : f.len = PageSize}], k \in PageKinds}
           : n \in 0..(MaxPages - 1)}

\* mem.page_chunks(Address::from(0), page_size): the window cut at the page
\* boundaries, every chunk with the address it starts at
page_chunks(w) ==
    [i \in 1..Len(w) |-> [addr |-> (i - 1) * PageSize, chunk |-> w[i]]]

\* line 14: read_u32(&mem[0xc00..]) & 0xffff_f003, as its four bytes
masked_pde(m) ==
    <<Byte(m, 3072) % 4, Byte(m, 3073) - (Byte(m, 3073) % 16),
      Byte(m, 3074), Byte(m, 3075)>>

\* a count that starts at byte offset 0x200 instead of entry index 0x200
count_entries_from_byte_0x200(m) ==
    Cardinality({k \in 128..((SliceLen(m) + 3) \div 4 - 1) :
                    Byte(m, 4 * k) \in {99, 227}})

\* lines 18-23: the entries counted: every fourth byte, the first 0x200
\* of them skipped, with value 0x63 or 0xe3
count_entries(m) ==
    Cardinality({k \in 512..((SliceLen(m) + 3) \div 4 - 1) :
                    Byte(m, 4 * k) \in {99, 227}})

\* a check_page without the self-reference check of line 14
check_page_no_self_reference(base, m) ==
    IF SliceLen(m) = 0 THEN "panic"
    ELSE IF Byte(m, 0) # 103 THEN "reject"
    ELSE IF SliceLen(m) < 3072 + 4 THEN "panic"
    ELSE IF count_entries(m) > 16 THEN "accept"
    ELSE "reject"

\* check_page: "accept" (true), "reject" (false), or "panic" when an index is
\* out of the range of the slice
check_page(base, m) ==
    IF SliceLen(m) = 0 THEN "panic"
    ELSE IF Byte(m, 0) # 103 THEN "reject"
    ELSE IF SliceLen(m) < 3072 + 4 THEN "panic"
    ELSE IF masked_pde(m) # U32Bytes(base + 3) THEN "reject"
    ELSE IF count_entries(m) > 16 THEN "accept"
    ELSE "reject"

\* Result<StartBlock>
StartBlock(a) == [kind |-> "Ok", arch |-> "X86", kernel_hint |-> 0, dtb |-> a]
InitError == [kind |-> "Err", arch |-> "-", kernel_hint |-> 0, dtb |-> 0]
Aborted == [kind |-> "panic", arch |-> "-", kernel_hint |-> 0, dtb |-> 0]
NoResult == [kind |-> "none", arch |-> "-", kernel_hint |-> 0, dtb |-> 0]

\* a scan that does not stop at the first match
RECURSIVE examined_all(_, _)
examined_all(cs, i) ==
    IF i > Len(cs) THEN <<>>
    ELSE <<check_page(cs[i].addr, cs[i].chunk)>> \o examined_all(cs, i + 1)

\* the chunks find looks at: up to the first one check_page does not reject
RECURSIVE examined(_, _)
examined(cs, i) ==
    IF i > Len(cs) THEN <<>>
    ELSE LET v == check_page(cs[i].addr, cs[i].chunk) IN
         IF v = "reject" THEN <<v>> \o examined(cs, i + 1) ELSE <<v>>

\* find, given the verdicts vs of check_page on the chunks cs it looked at:
\* the first chunk check_page accepts
find_result(cs, vs) ==
    LET n == Len(vs)
    IN  IF n = 0 \/ vs[n] = "reject" THEN InitError
        ELSE IF vs[n] = "panic" THEN Aborted
        ELSE StartBlock(cs[n].addr)

find(w) == find_result(page_chunks(w), examined(page_chunks(w), 1))

ScanInit ==
    /\ window \in Windows
    /\ result = NoResult
    /\ prev = NoResult
    /\ checked = <<>>

\* no scanner: the state of the scanner while another part runs
ScanIdle ==
    /\ window = <<>> /\ result = NoResult /\ prev = NoResult
    /\ checked = <<>>

\* a run of find that clears the first byte of the page it reports
Find_scribble ==
    /\ result.kind # "panic"
    /\ checked' = examined(page_chunks(window), 1)
    /\ result' = find_result(page_chunks(window), checked')
    /\ prev' = result
    /\ window' = IF result'.kind = "Ok"
                 THEN [window EXCEPT ![Len(checked')].b0 = 0]
                 ELSE window
    /\ UNCHANGED notScanVars

\* one run of find over the window
Find ==
    /\ result.kind # "panic"
    /\ checked' = examined(page_chunks(window), 1)
    /\ result' = find_result(page_chunks(window), checked')
    /\ prev' = result
    /\ UNCHANGED window
    /\ UNCHANGED notScanVars

ScanNext == Find

----------------------------------------------------------------------------
(* The process constructors. *)

\* the architectures (instruction-set tags) and their pointer widths
Archs == {"X86", "X86Pae", "X64", "AArch64"}

\* Architecture::bits
Bits(a) == IF a \in {"X64", "AArch64"} THEN 64 ELSE 32

\* the Win32Offsets records: eproc_wow64 is 0 on a system without WoW64
OffsetRecords ==
    [eproc_pid : {8}, eproc_name : {16}, kproc_dtb : {4}, eproc_wow64 : {0, 24},
     eproc_peb : {32}, peb_ldr_x64 : {24}, peb_ldr_x86 : {12},
     ldr_list_x64 : {16}, ldr_list_x86 : {12}]

\* the Win32 records: the start block and the base of the kernel image
Win32s == [arch : Archs, dtb : {4096}, kernel_base : {8192}]

\* what target memory answers to the reads of one constructor call (target
\* memory is live: every read succeeds with some value or fails)
Answers ==
    [pid : {ReadErr, 4}, name : {"Err", "System", "smss.exe"}, dtb : {ReadErr, 12288},
     wow64 : {ReadErr, Null, 20480}, peb : {ReadErr, 24576},
     ldr : {ReadErr, 28672}, mod : {ReadErr, 32768}]

\* one virtual read: which reader (its architectures and DTB), where, what
\* for, and the address it returned (ReadErr: the read failed; Null as well
\* for a read of something that is not an address)
Read(w, ty, d, a, f, v) ==
    [sys_arch |-> w.arch, type_arch |-> ty, dtb |-> d, addr |-> a, field |-> f,
     val |-> v]

\* the value of a read that does not return an address
NotAddr(ok) == IF ok THEN Null ELSE ReadErr

\* Result<Win32Process>
Win32Process(k, a, pid, name, dtb, wow64, peb, pm, sa, pa) ==
    [kind |-> k, address |-> a, pid |-> pid, name |-> name, dtb |-> dtb,
     wow64 |-> wow64, peb |-> peb, peb_module |-> pm, sys_arch |-> sa,
     proc_arch |-> pa]
ProcErr == Win32Process("Err", Null, 0, "", Null, Null, Null, Null, "-", "-")
NoProc == Win32Process("none", Null, 0, "", Null, Null, Null, Null, "-", "-")

\* the outcome of a constructor call: its result and the reads it issued
Outcome(r, log) == [res |-> r, log |-> log]

\* lines 104-116: the process architecture ("Err": invalid architecture)
select_proc_arch(sys_arch, wow64) ==
    IF Bits(sys_arch) = 64 THEN (IF wow64 = Null THEN "X64" ELSE "X86")
    ELSE IF Bits(sys_arch) = 32 THEN "X86"
    ELSE "Err"

\* a constructor that reads the WoW64 pointer whatever the offset is
read_wow64_always(o) == TRUE

\* lines 82-91: is the WoW64 pointer read at all
read_wow64(o) == o.eproc_wow64 # 0

\* a constructor that reads the PEB pointer from the EPROCESS in every case
peb_source_eprocess(e, o, wow64) == e + o.eproc_peb

\* lines 95-101: where the PEB pointer is read
peb_source(e, o, wow64) == IF wow64 = Null THEN e + o.eproc_peb ELSE wow64

\* a process reader bound to the DTB of the kernel
kernel_dtb(w, dtb) == w.dtb

\* lines 130-131: the DTB the process reader is bound to
proc_reader_dtb(w, dtb) == dtb

\* lines 121-125: the offsets of PEB.Ldr and Ldr.InLoadOrderModuleList
ldr_offsets(o, proc_arch) ==
    IF Bits(proc_arch) = 64
    THEN [peb_ldr |-> o.peb_ldr_x64, ldr_list |-> o.ldr_list_x64]
    ELSE [peb_ldr |-> o.peb_ldr_x86, ldr_list |-> o.ldr_list_x86]

\* Win32Process::try_with_eprocess, with R the answers of target memory
try_with_eprocess(w, o, e, R) ==
    LET k(a, f, v) == Read(w, w.arch, w.dtb, a, f, v)
        l1 == <<k(e + o.eproc_pid, "pid", NotAddr(R.pid # ReadErr))>>
        l2 == l1 \o <<k(e + o.eproc_name, "name", NotAddr(R.name # "Err"))>>
        l3 == l2 \o <<k(e + o.kproc_dtb, "dtb", R.dtb)>>
        l4 == IF read_wow64(o)
              THEN l3 \o <<k(e + o.eproc_wow64, "wow64", R.wow64)>>
              ELSE l3
        wow64 == IF read_wow64(o) THEN R.wow64 ELSE Null
        l5 == l4 \o <<k(peb_source(e, o, wow64), "peb", R.peb)>>
        proc_arch == select_proc_arch(w.arch, wow64)
        offs == ldr_offsets(o, proc_arch)
        p(a, f, v) == Read(w, proc_arch, proc_reader_dtb(w, R.dtb), a, f, v)
        l6 == l5 \o <<p(R.peb + offs.peb_ldr, "peb_ldr", R.ldr)>>
        l7 == l6 \o <<p(R.ldr + offs.ldr_list, "peb_module", R.mod)>>
    IN  IF R.pid = ReadErr THEN Outcome(ProcErr, l1)
        ELSE IF R.name = "Err" THEN Outcome(ProcErr, l2)
        ELSE IF R.dtb = ReadErr THEN Outcome(ProcErr, l3)
        ELSE IF wow64 = ReadErr THEN Outcome(ProcErr, l4)
        ELSE IF R.peb = ReadErr THEN Outcome(ProcErr, l5)
        ELSE IF proc_arch = "Err" THEN Outcome(ProcErr, l5)
        ELSE IF R.ldr = ReadErr THEN Outcome(ProcErr, l6)
        ELSE IF R.mod = ReadErr THEN Outcome(ProcErr, l7)
        ELSE Outcome(Win32Process("Ok", e, R.pid, R.name, R.dtb, wow64, R.peb,
                                  R.mod, w.arch, proc_arch), l7)

\* Win32Process::try_from_kernel: pe is how reading and parsing the kernel
\* image and looking up PsLoadedModuleList went, m the list head read
try_from_kernel(w, pe, m) ==
    LET k(a, f, v) == Read(w, w.arch, w.dtb, a, f, v)
        l1 == <<k(w.kernel_base, "pe", NotAddr(pe # "read_err"))>>
        l2 == l1 \o <<k(w.kernel_base + 256, "peb_module", m)>>
    IN  IF pe \in {"read_err", "parse_err", "no_export", "forward"}
        THEN Outcome(ProcErr, l1)
        ELSE IF m = ReadErr THEN Outcome(ProcErr, l2)
        ELSE Outcome(Win32Process("Ok", w.kernel_base, 0, "ntoskrnl.exe", w.dtb,
                                  Null, Null, m, w.arch, w.arch), l2)

\* Result<Architecture> of the legacy Process::type_arch, with the WoW64
\* pointer it read (ReadErr: none read)
TypeArch(k, a, wow64) == [kind |-> k, arch |-> a, wow64 |-> wow64]

\* TypeArchitecture for Process::type_arch; wow is the outcome of
\* Process::wow64 (find_offset and virt_read_addr): ReadErr or the pointer
type_arch(w, wow) ==
    IF w.arch = "X86" THEN TypeArch("Ok", "X86", ReadErr)
    ELSE IF wow = ReadErr THEN TypeArch("Err", "-", ReadErr)
    ELSE IF ~(wow # Null) THEN TypeArch("Ok", "X64", wow)
    ELSE TypeArch("Ok", "X86", wow)

ProcInit ==
    /\ win \in Win32s
    /\ offsets \in OffsetRecords
    /\ call = "none"
    /\ proc = NoProc
    /\ reads = <<>>
    /\ legacy = TypeArch("none", "-", ReadErr)

\* no process constructor: their state while another part runs
ProcIdle ==
    /\ win = [arch |-> "X86", dtb |-> 4096, kernel_base |-> 8192]
    /\ offsets \in [eproc_pid : {8}, eproc_name : {16}, kproc_dtb : {4},
                    eproc_wow64 : {0}, eproc_peb : {32}, peb_ldr_x64 : {24},
                    peb_ldr_x86 : {12}, ldr_list_x64 : {16}, ldr_list_x86 : {12}]
    /\ call = "none"
    /\ proc = NoProc
    /\ reads = <<>>
    /\ legacy = TypeArch("none", "-", ReadErr)

\* a call of Win32Process::try_with_eprocess
TryWithEprocess ==
    /\ \E e \in Eprocs, R \in Answers :
          LET out == try_with_eprocess(win, offsets, e, R)
          IN  proc' = out.res /\ reads' = out.log
    /\ call' = "try_with_eprocess"
    /\ UNCHANGED <<win, offsets, legacy>>
    /\ UNCHANGED notProcVars

\* a call of Win32Process::try_from_kernel
TryFromKernel ==
    /\ \E pe \in {"read_err", "parse_err", "no_export", "forward", "symbol"},
          m \in {ReadErr, 32768} :
          LET out == try_from_kernel(win, pe, m)
          IN  proc' = out.res /\ reads' = out.log
    /\ call' = "try_from_kernel"
    /\ UNCHANGED <<win, offsets, legacy>>
    /\ UNCHANGED notProcVars

\* a call of the legacy Process::type_arch
LegacyTypeArch ==
    /\ \E wow \in {ReadErr, Null, 20480} : legacy' = type_arch(win, wow)
    /\ UNCHANGED <<win, offsets, call, proc, reads>>
    /\ UNCHANGED notProcVars

ProcNext == TryWithEprocess \/ TryFromKernel \/ LegacyTypeArch

----------------------------------------------------------------------------
(* The process lookup by name. *)

\* the lists of distinct EPROCESS addresses Win32::eprocess_list can return
EprocessLists ==
    UNION {{l \in [1..n -> Eprocs] : \A i, j \in 1..n : l[i] = l[j] => i = j}
           : n \in 0..NumProcs}

\* Result<Vec<Address>> of Win32::eprocess_list
ListOk(l) == [kind |-> "Ok", list |-> l]
ListErr == [kind |-> "Err", list |-> <<>>]

\* what target memory answers to the reads of one EPROCESS during a lookup:
\* a named process whose PEB pointer can or cannot be read
NameAnswers ==
    {R \in Answers :
        /\ R.pid = 4 /\ R.name # "Err" /\ R.dtb # ReadErr /\ R.wow64 = Null
        /\ R.ldr # ReadErr /\ R.mod # ReadErr}

\* the error of line 166
NotFound == Win32Process("NotFound", Null, 0, "", Null, Null, Null, Null, "-", "-")

\* the state of a lookup: its result so far, the reads issued and the
\* EPROCESS addresses try_with_eprocess was called on
Lookup(r, log, t) == [res |-> r, log |-> log, tried |-> t]

\* a lookup that gives up at the first EPROCESS that cannot be parsed
RECURSIVE find_by_name_strict(_, _, _, _, _, _)
find_by_name_strict(w, o, l, M, name, i) ==
    IF i > Len(l) THEN Lookup(NotFound, <<>>, <<>>)
    ELSE LET out == try_with_eprocess(w, o, l[i], M[l[i]])
             rest == find_by_name_strict(w, o, l, M, name, i + 1)
         IN  IF out.res.kind = "Ok" /\ out.res.name = name
             THEN Lookup(out.res, out.log, <<l[i]>>)
             ELSE IF out.res.kind # "Ok"
             THEN Lookup(ProcErr, out.log, <<l[i]>>)
             ELSE Lookup(rest.res, out.log \o rest.log, <<l[i]>> \o rest.tried)

\* lines 161-166: map, filter_map(Result::ok), find and ok_or_else over the
\* entries of the list from index i on; the iterator is lazy, so that no
\* entry behind the one returned is looked at
RECURSIVE find_by_name(_, _, _, _, _, _)
find_by_name(w, o, l, M, name, i) ==
    IF i > Len(l) THEN Lookup(NotFound, <<>>, <<>>)
    ELSE LET out == try_with_eprocess(w, o, l[i], M[l[i]])
             rest == find_by_name(w, o, l, M, name, i + 1)
         IN  IF out.res.kind = "Ok" /\ out.res.name = name
             THEN Lookup(out.res, out.log, <<l[i]>>)
             ELSE Lookup(rest.res, out.log \o rest.log, <<l[i]>> \o rest.tried)

\* Win32Process::try_with_name: el is the outcome of win.eprocess_list
try_with_name(w, o, el, M, name) ==
    IF el.kind = "Err" THEN Lookup(ProcErr, <<>>, <<>>)
    ELSE find_by_name(w, o, el.list, M, name, 1)

NameInit ==
    /\ win \in {w \in Win32s : w.arch = "X64"}
    /\ offsets \in OffsetRecords
    /\ call = "none"
    /\ proc = NoProc
    /\ reads = <<>>
    /\ legacy = TypeArch("none", "-", ReadErr)
    /\ elist \in {ListErr} \cup {ListOk(l) : l \in EprocessLists}
    /\ pmem \in [Eprocs -> NameAnswers]
    /\ wanted = ""
    /\ tried = <<>>

\* no lookup: the state of the lookup while another part runs
NameIdle ==
    /\ elist = ListErr
    /\ pmem = [e \in Eprocs |-> CHOOSE R \in NameAnswers : TRUE]
    /\ wanted = ""
    /\ tried = <<>>

\* a call of Win32Process::try_with_name
TryWithName ==
    /\ \E name \in {"System", "lsass.exe"} :
          LET out == try_with_name(win, offsets, elist, pmem, name)
          IN  /\ proc' = out.res
              /\ reads' = out.log
              /\ tried' = out.tried
              /\ wanted' = name
    /\ call' = "try_with_name"
    /\ UNCHANGED <<win, offsets, legacy, elist, pmem>>
    /\ UNCHANGED notNameVars

NameNext == TryWithName

----------------------------------------------------------------------------
(* The legacy Process::first_peb_entry. *)

\* Process::find_offset: the pdb, when there is one, describes the kernel the
\* offsets record describes; a kernel without WoW64 has no WoW64Process field
find_offset(pdb, o, field) ==
    IF ~pdb THEN ReadErr
    ELSE CASE field = "WoW64Process" ->
                (IF o.eproc_wow64 = 0 THEN ReadErr ELSE o.eproc_wow64)
           [] field = "Peb" -> o.eproc_peb
           [] field = "DirectoryTableBase" -> o.kproc_dtb

\* what a read through the process reports: the reads issued, the address
\* returned
Fetched(log, v) == [log |-> log, val |-> v]

\* VirtualReadHelper for Process (virt_read), lines 263-271: the read of
\* address a goes through the system architecture and the DTB of the
\* process, which Process::dtb reads (lines 176-186) before every read
proc_virt_read_addr(w, o, e, pdb, R, a, f, v) ==
    LET offs == find_offset(pdb, o, "DirectoryTableBase")
        d == Read(w, w.arch, w.dtb, e + offs, "dtb", R.dtb)
    IN  IF offs = ReadErr THEN Fetched(<<>>, ReadErr)
        ELSE IF R.dtb = ReadErr THEN Fetched(<<d>>, ReadErr)
        ELSE Fetched(<<d, Read(w, w.arch, R.dtb, a, f, v)>>, v)

\* Result<Address> of first_peb_entry for the process at e
FirstPeb(k, e, m) == [kind |-> k, eprocess |-> e, first_module |-> m]

\* lines 192-201: where the legacy code reads the PEB pointer
legacy_peb_source(e, poffs, wow64) == IF wow64 = Null THEN e + poffs ELSE wow64

\* ProcessTrait for Process::first_peb_entry, with R the answers of
\* target memory
first_peb_entry(w, o, e, pdb, R) ==
    LET woffs == find_offset(pdb, o, "WoW64Process")
        l1 == <<Read(w, w.arch, w.dtb, e + woffs, "wow64", R.wow64)>>
        wow64 == R.wow64
        poffs == find_offset(pdb, o, "Peb")
        peb == proc_virt_read_addr(w, o, e, pdb, R,
                                   legacy_peb_source(e, poffs, wow64), "peb", R.peb)
        l2 == l1 \o peb.log
        known == w.arch \in {"X64", "X86"}
        ldr_offs == IF w.arch = "X64" THEN 24 ELSE 12
        ldr_list_offs == IF w.arch = "X64" THEN 16 ELSE 12
        peb_ldr == proc_virt_read_addr(w, o, e, pdb, R,
                                       peb.val + ldr_offs, "peb_ldr", R.ldr)
        l3 == l2 \o peb_ldr.log
        first_module == proc_virt_read_addr(w, o, e, pdb, R,
                                            peb_ldr.val + ldr_list_offs,
                                            "peb_module", R.mod)
        l4 == l3 \o first_module.log
        Err == FirstPeb("Err", e, Null)
    IN  IF woffs = ReadErr THEN Outcome(Err, <<>>)
        ELSE IF wow64 = ReadErr THEN Outcome(Err, l1)
        ELSE IF wow64 = Null /\ poffs = ReadErr THEN Outcome(Err, l1)
        ELSE IF peb.val = ReadErr THEN Outcome(Err, l2)
        ELSE IF ~known THEN Outcome(Err, l2)
        ELSE IF peb_ldr.val = ReadErr THEN Outcome(Err, l3)
        ELSE IF first_module.val = ReadErr THEN Outcome(Err, l4)
        ELSE Outcome(FirstPeb("Ok", e, first_module.val), l4)

\* both implementations over one target memory: every EPROCESS answers alike
PebInit ==
    /\ win \in Win32s
    /\ offsets \in OffsetRecords
    /\ call = "none"
    /\ proc = NoProc
    /\ reads = <<>>
    /\ legacy = TypeArch("none", "-", ReadErr)
    /\ pdb_ok \in BOOLEAN
    /\ links = 0 /\ blink = 0
    /\ mem = [e \in Eprocs |-> Null]
    /\ first_eprocess = Null /\ eprocess = Null
    /\ ret = Ret("init", Null) /\ yielded = <<>> /\ calls = 0
    /\ elist = ListErr
    /\ pmem \in {[e \in Eprocs |-> R] : R \in Answers}
    /\ wanted = ""
    /\ tried = <<>>
    /\ first_peb = FirstPeb("none", Null, Null)
    /\ lreads = <<>>

\* no legacy process: its state while another part runs
PebIdle ==
    /\ first_peb = FirstPeb("none", Null, Null)
    /\ lreads = <<>>

\* a call of Win32Process::try_with_eprocess on the target memory pmem
TryWithEprocessMem ==
    /\ \E e \in Eprocs :
          LET out == try_with_eprocess(win, offsets, e, pmem[e])
          IN  proc' = out.res /\ reads' = out.log
    /\ call' = "try_with_eprocess"
    /\ UNCHANGED <<win, offsets, legacy>>
    /\ UNCHANGED notProcVars

\* a call of the legacy first_peb_entry on the target memory pmem
FirstPebEntry ==
    /\ \E e \in Eprocs :
          LET out == first_peb_entry(win, offsets, e, pdb_ok, pmem[e])
          IN  first_peb' = out.res /\ lreads' = out.log
    /\ UNCHANGED notPebVars

PebNext == TryWithEprocessMem \/ FirstPebEntry

----------------------------------------------------------------------------
(* The module list walk. *)

\* the addresses of the module list entries
Mods == {32768 + 16 * i : i \in 1..NumMods}

\* proc_reader.virt_read_addr at address a: the list entries and address 0
\* may be mapped (ReadErr: not mapped)
mod_read_addr(a) == IF a \in DOMAIN modmem THEN modmem[a] ELSE ReadErr

\* Result<Vec<Address>> of peb_list ("running": it has not returned)
PebList(k, l) == [kind |-> k, list |-> l]

\* line 190: pebs.push(list_entry); the model keeps MaxPebs entries
Push(v, a) == IF Len(v) < MaxPebs THEN Append(v, a) ELSE v

\* line 192: does the link read end the loop
is_last(next) == next = Null \/ next = peb_module

\* a call of peb_list on a process whose peb_module was read from memory
ListInit ==
    /\ modmem \in [Mods \cup {Null} -> Mods \cup {Null, ReadErr}]
    /\ peb_module \in Mods \cup {Null}
    /\ list_entry = peb_module
    /\ pebs = <<>>
    /\ peb_ret = PebList("running", <<>>)
    /\ iters = 0

\* no module walk: its state while another part runs
ListIdle ==
    /\ modmem = [a \in Mods \cup {Null} |-> ReadErr]
    /\ peb_module = Null /\ list_entry = Null
    /\ pebs = <<>>
    /\ peb_ret = PebList("running", <<>>)
    /\ iters = 0

\* one iteration of the loop of peb_list, lines 189-195 (and the return of
\* line 191 or 197 when it is the last)
PebListLoop ==
    /\ peb_ret.kind = "running"
    /\ iters' = (iters + 1) % 2
    /\ LET next == mod_read_addr(list_entry) IN
       IF next = ReadErr
       THEN /\ peb_ret' = PebList("Err", <<>>)
            /\ pebs' = <<>>
            /\ UNCHANGED list_entry
       ELSE /\ pebs' = Push(pebs, list_entry)
            /\ list_entry' = next
            /\ peb_ret' = IF is_last(next) THEN PebList("Ok", pebs')
                          ELSE peb_ret
    /\ UNCHANGED <<modmem, peb_module>>
    /\ UNCHANGED notListVars

ListNext == PebListLoop

----------------------------------------------------------------------------
(* The connector create function. *)

\* the bytes an argument string is made of: 'a', '=', the two bytes of U+00E9
\* (0xC3 0xA9) and 0xFF, which no UTF-8 string contains
ArgBytes == {97, 61, 195, 169, 255}

\* the C strings passed to mf_create (CStr::from_ptr: the bytes before the
\* NUL; args points to a NUL-terminated string, as CStr::from_ptr requires)
ArgStrings == UNION {[1..n -> ArgBytes] : n \in 0..MaxArgLen}

\* the string s has a byte at index i, and it lies within lo..hi
Cont(s, i, lo, hi) == i <= Len(s) /\ s[i] >= lo /\ s[i] <= hi

\* CStr::to_str: the UTF-8 validation of the bytes of s from index i on
RECURSIVE Utf8From(_, _)
Utf8From(s, i) ==
    IF i > Len(s) THEN TRUE
    ELSE LET b == s[i] IN
         IF b < 128 THEN Utf8From(s, i + 1)
         ELSE IF b >= 194 /\ b <= 223
              THEN Cont(s, i + 1, 128, 191) /\ Utf8From(s, i + 2)
         ELSE IF b >= 224 /\ b <= 239
              THEN /\ Cont(s, i + 1, IF b = 224 THEN 160 ELSE 128,
                                     IF b = 237 THEN 159 ELSE 191)
                   /\ Cont(s, i + 2, 128, 191)
                   /\ Utf8From(s, i + 3)
         ELSE IF b >= 240 /\ b <= 244
              THEN /\ Cont(s, i + 1, IF b = 240 THEN 144 ELSE 128,
                                     IF b = 244 THEN 143 ELSE 191)
                   /\ Cont(s, i + 2, 128, 191)
                   /\ Cont(s, i + 3, 128, 191)
                   /\ Utf8From(s, i + 4)
         ELSE FALSE

\* lines 90, 119: CStr::from_ptr(args).to_str() succeeds
to_str(s) == Utf8From(s, 1)

\* lines 81-88: the log level handed to a two-argument factory
Level(log_level) ==
    CASE log_level = 0 -> "Error"
      [] log_level = 1 -> "Warn"
      [] log_level = 2 -> "Info"
      [] log_level = 3 -> "Debug"
      [] log_level = 4 -> "Trace"
      [] OTHER -> "Trace"

\* one step of mf_create: what was called, how it went, and (for the
\* factory) the log level it was given
Step(s, ok, l) == [step |-> s, ok |-> ok, level |-> l]

\* Option<&'static mut c_void>
SomeHandle == [kind |-> "Some"]
NullHandle == [kind |-> "None"]
NoHandle == [kind |-> "none"]

\* the outcome of mf_create: the handle, the steps and the errors logged
Created(h, t, n) == [handle |-> h, trace |-> t, logged |-> n]

\* a create function that invokes the factory before it looks at the
\* outcome of the parsing
mf_create_factory_first(form, s, log_level, p, f) ==
    LET level == IF form = "two" THEN Level(log_level) ELSE "-"
        n == IF form = "two" THEN 1 ELSE 0
        t1 == <<Step("to_str", to_str(s), "-")>>
        t2 == t1 \o <<Step("parse", p, "-")>>
        t3 == t2 \o <<Step("factory", f, level)>>
    IN  IF ~to_str(s) THEN Created(NullHandle, t1, n)
        ELSE IF ~f THEN Created(NullHandle, t3, n)
        ELSE IF ~p THEN Created(NullHandle, t3, n)
        ELSE Created(SomeHandle, t3, 0)

\* mf_create, lines 77-110 (two-argument factory) and 115-136 (one-argument
\* factory): p is the outcome of ConnectorArgs::parse on the string, f the
\* outcome of the user factory
mf_create(form, s, log_level, p, f) ==
    LET level == IF form = "two" THEN Level(log_level) ELSE "-"
        n == IF form = "two" THEN 1 ELSE 0
        t1 == <<Step("to_str", to_str(s), "-")>>
        t2 == t1 \o <<Step("parse", p, "-")>>
        t3 == t2 \o <<Step("factory", f, level)>>
    IN  IF ~to_str(s) THEN Created(NullHandle, t1, n)
        ELSE IF ~p THEN Created(NullHandle, t2, n)
        ELSE IF ~f THEN Created(NullHandle, t3, n)
        ELSE Created(SomeHandle, t3, 0)

\* the connector macro was applied to a factory of one of the two forms
ConnInit ==
    /\ create_form \in {"one", "two"}
    /\ args \in ArgStrings
    /\ parse_ok \in BOOLEAN
    /\ handle = NoHandle
    /\ trace = <<>>
    /\ logged = 0

\* no connector: the state of the create function while another part runs
ConnIdle ==
    /\ create_form = "one" /\ args = <<>> /\ parse_ok = FALSE
    /\ handle = NoHandle /\ trace = <<>> /\ logged = 0

\* a call of mf_create
MfCreate ==
    /\ \E log_level \in -1..5, f \in BOOLEAN :
          LET out == mf_create(create_form, args, log_level, parse_ok, f)
          IN  /\ handle' = out.handle
              /\ trace' = out.trace
              /\ logged' = out.logged
    /\ UNCHANGED <<create_form, args, parse_ok>>
    /\ UNCHANGED notConnVars

ConnNext == MfCreate

----------------------------------------------------------------------------
(* Specifications. *)

WalkSpecInit == WalkInit /\ ScanIdle /\ ProcIdle /\ ConnIdle /\ NameIdle /\ PebIdle /\ ListIdle

WalkSpec == WalkSpecInit /\ [][WalkNext]_vars

\* the caller keeps calling next until it returns None
WalkFairSpec == WalkSpec /\ WF_vars(ProcessIterator_next)

ScanSpecInit == ScanInit /\ WalkIdle /\ ProcIdle /\ ConnIdle /\ NameIdle /\ PebIdle /\ ListIdle

ScanSpec == ScanSpecInit /\ [][ScanNext]_vars

ProcSpecInit == ProcInit /\ WalkIdle /\ ScanIdle /\ ConnIdle /\ NameIdle /\ PebIdle /\ ListIdle

ProcSpec == ProcSpecInit /\ [][ProcNext]_vars

ConnSpecInit == ConnInit /\ WalkIdle /\ ScanIdle /\ ProcIdle /\ NameIdle /\ PebIdle /\ ListIdle

ConnSpec == ConnSpecInit /\ [][ConnNext]_vars

NameSpecInit == NameInit /\ WalkIdle /\ ScanIdle /\ ConnIdle /\ PebIdle /\ ListIdle

NameSpec == NameSpecInit /\ [][NameNext]_vars

PebSpecInit == PebInit /\ ScanIdle /\ ConnIdle /\ ListIdle

PebSpec == PebSpecInit /\ [][PebNext]_vars

ListSpecInit ==
    ListInit /\ WalkIdle /\ ScanIdle /\ ProcIdle /\ ConnIdle /\ NameIdle /\ PebIdle

ListSpec == ListSpecInit /\ [][ListNext]_vars

\* the loop of peb_list keeps running until it breaks or returns
ListFairSpec == ListSpec /\ WF_vars(PebListLoop)

----------------------------------------------------------------------------
(* Properties of the legacy process walker. *)

\* the sequences of n distinct EPROCESS addresses, 1 <= n <= NumProcs
Chains ==
    UNION {{s \in [1..n -> Eprocs] : \A i, j \in 1..n : s[i] = s[j] => i = j}
           : n \in 1..NumProcs}

\* target memory holds the circular list s: s[1] is the anchor, every
\* Blink points to the ActiveProcessLinks field of the next entry and the
\* Blink of the last entry points back to the anchor
IsCircular(s) ==
    /\ s[1] = first_eprocess
    /\ \A i \in 1..Len(s) :
          mem[s[i]] = (IF i < Len(s) THEN s[i + 1] ELSE s[1]) + links

\* C2: the process walker always terminates: for every content of target
\* memory, repeated calls of next eventually come to an end.  A call that
\* aborts on a failed read is counted as an end here, so that what refutes
\* the statement is a walk that goes on for ever: a Blink chain that loops
\* without passing through the anchor.
C2_WalkerTerminates == <>(ret.kind = "None" \/ ret.kind = "panic")

\* C3: on a circular list of n distinct entries the walker returns the
\* entries in Blink order, the anchor first, each one once and each as its
\* normalised base address; once the Blink that leads back to the anchor was
\* read, the walk is over: every later call returns None and yields nothing.
C3_CircularListYieldedOnce ==
    \A s \in Chains :
        (pdb_ok /\ IsCircular(s)) =>
            /\ ret.kind # "panic"
            /\ Len(yielded) <= Len(s)
            /\ yielded = SubSeq(s, 1, Len(yielded))
            /\ ret.kind = "Some" => ret.addr = s[Len(yielded)]
            /\ ret.kind = "None" => eprocess = Null
            /\ IF eprocess = Null
               THEN yielded = s
               ELSE Len(yielded) < Len(s) /\ eprocess = s[Len(yielded) + 1]

\* a list of NumProcs entries was walked to its end and next was called again
C3_Witness ==
    \E s \in Chains :
        /\ Len(s) = NumProcs /\ IsCircular(s) /\ pdb_ok /\ links # 0
        /\ yielded = s /\ eprocess = Null /\ ret.kind = "None"

\* C16: next treats a failed read of the next link like a null link: when
\* the Blink of the current EPROCESS cannot be read, the call still returns
\* the current process and ends the iteration (every later call returns
\* None); it does not abort.
C16_FailedReadEndsWalk ==
    [][(/\ eprocess # Null /\ pdb_ok
        /\ virt_read_addr(eprocess + links + blink) = ReadErr) =>
          (/\ ret'.kind = "Some" /\ ret'.addr = eprocess
           /\ eprocess' = Null)]_vars

----------------------------------------------------------------------------
(* Properties of the x86 start-block scanner. *)

\* the address at which the i-th page of the window starts
PageBase(i) == (i - 1) * PageSize

\* the 32-bit little-endian value at byte offset 0xC00 of a page
PdeValue(m) ==
    Byte(m, 3072) + 256 * Byte(m, 3073) + 65536 * Byte(m, 3074)
        + 16777216 * Byte(m, 3075)

\* byte 0 is 0x67 and the entry at 0xC00 points to the page's own base a
\* (its bits 12..31) with the flags 0x3, present and writable (its bits 0..1)
HeaderOk(a, m) ==
    /\ SliceLen(m) >= 3076
    /\ Byte(m, 0) = 103
    /\ PdeValue(m) - (PdeValue(m) % PageSize) = a
    /\ PdeValue(m) % 4 = 3

\* the number of 4-byte entries of a page, from entry index `first` on,
\* whose low byte is 0x63 or 0xE3
Marked(m, first) ==
    Cardinality({k \in first..((SliceLen(m) - 1) \div 4) : Byte(m, 4 * k) \in {99, 227}})

\* the x86 signature as the code has it
X86Signature(a, m) == HeaderOk(a, m) /\ Marked(m, 512) >= 17

\* the pages of the window that satisfy the signature
Matching == {i \in 1..Len(window) : X86Signature(PageBase(i), window[i])}

\* C4: check_page accepts a page only if its byte 0 is 0x67 and the entry at
\* byte offset 0xC00 points to the page's own base with the flags 0x3; a page
\* that fails either condition is never reported as the DTB.
C4_HeaderNecessary ==
    /\ \A i \in 1..Len(checked) :
          checked[i] = "accept" => HeaderOk(PageBase(i), window[i])
    /\ result.kind = "Ok" =>
          \E i \in 1..Len(window) :
              PageBase(i) = result.dtb /\ HeaderOk(result.dtb, window[i])

\* a page with byte 0 = 0x67 and 17 marked entries but an entry at 0xC00 that
\* does not point to it was rejected, and the page after it was accepted
C4_Witness ==
    /\ checked = <<"reject", "accept">>
    /\ window[1].b0 = 103 /\ Marked(window[1], 512) >= 17
    /\ ~HeaderOk(PageBase(1), window[1])
    /\ result.kind = "Ok" /\ result.dtb = PageBase(2)

\* C5 as stated: a (whole) page that passes the byte-0 and self-reference
\* checks is accepted exactly when at least 17 of the entries past BYTE offset
\* 0x200 have low byte 0x63 or 0xE3.
C5_CountFromByteOffset ==
    \A i \in 1..Len(checked) :
        (SliceLen(window[i]) = PageSize /\ HeaderOk(PageBase(i), window[i])) =>
            (checked[i] = "accept" <=> Marked(window[i], 128) >= 17)

\* C5 as amended: a page that passes the byte-0 and self-reference checks is
\* accepted exactly when at least 17 of the entries from ENTRY INDEX 0x200 on
\* (byte offset 0x800) have low byte 0x63 or 0xE3; 16 or fewer reject it.
C5_CountFromEntryIndex ==
    \A i \in 1..Len(checked) :
        HeaderOk(PageBase(i), window[i]) =>
            (checked[i] = "accept" <=> Marked(window[i], 512) >= 17)

\* a page with 16 marked entries (and 17 more below byte offset 0x800) was
\* rejected and a page with exactly 17 was accepted, both with a good header
C5_Witness ==
    /\ checked = <<"reject", "accept">>
    /\ HeaderOk(PageBase(1), window[1]) /\ Marked(window[1], 512) = 16
    /\ Marked(window[1], 128) >= 17
    /\ HeaderOk(PageBase(2), window[2]) /\ Marked(window[2], 512) = 17

\* C6: first match wins: when pages of the window satisfy the signature, find
\* returns the start block of the lowest-addressed one, and no page below the
\* returned DTB satisfies the signature.
C6_FirstMatchWins ==
    (result.kind # "none" /\ Matching # {}) =>
        /\ result.kind = "Ok"
        /\ \E i \in Matching : result.dtb = PageBase(i)
        /\ \A i \in Matching : result.dtb <= PageBase(i)

\* two pages satisfy the signature and find reported the first
C6_Witness ==
    /\ Cardinality(Matching) >= 2
    /\ result.kind = "Ok" /\ result.dtb = PageBase(1)

C8_ResultOfFind ==
    result.kind # "none" =>
        /\ result.kind = "Ok" <=> Matching # {}
        /\ result.kind = "Ok" =>
              /\ result.arch = "X86" /\ result.kernel_hint = 0
              /\ result.dtb % PageSize = 0
              /\ \E i \in Matching : result.dtb = PageBase(i)
        /\ Matching = {} => result.kind = "Err"

\* C17: find is total: for every window, the empty one and those whose last
\* chunk is shorter than a page included, a run of find returns a StartBlock
\* or the Initialization error and never aborts on an access out of range.
C17_FindTotal == result.kind \in {"none", "Ok", "Err"}

----------------------------------------------------------------------------
(* Properties of the process constructors. *)

\* the process architecture of section 4.6, step 4: X86 on a 32-bit system,
\* else X86 for a WoW64 process, else X64
ExpectedArch(sys_arch, wow64) ==
    IF Bits(sys_arch) = 32 THEN "X86"
    ELSE IF wow64 # Null THEN "X86"
    ELSE "X64"

\* C1: for every system architecture and WoW64 pointer, the process
\* architecture is X64 on a 64-bit system with a null WoW64 pointer, X86 on a
\* 64-bit system with a non-null one and X86 on a 32-bit system, both in
\* Win32Process::try_with_eprocess and in the legacy Process::type_arch.
C1_ArchSelection ==
    /\ (call = "try_with_eprocess" /\ proc.kind = "Ok") =>
          proc.proc_arch = ExpectedArch(proc.sys_arch, proc.wow64)
    /\ legacy.kind = "Ok" =>
          legacy.arch = ExpectedArch(win.arch, legacy.wow64)

\* C9: with eproc_wow64 = 0, try_with_eprocess reads no WoW64 pointer; the
\* process it returns has a null WoW64 pointer, its PEB was read at
\* eprocess + eproc_peb, and on a 64-bit system its architecture is X64.
C9_NoWow64Detection ==
    (call = "try_with_eprocess" /\ offsets.eproc_wow64 = 0) =>
        /\ \A i \in 1..Len(reads) : reads[i].field # "wow64"
        /\ \A i \in 1..Len(reads) :
              reads[i].field = "peb" =>
                  reads[i].addr = (reads[1].addr - offsets.eproc_pid) + offsets.eproc_peb
        /\ proc.kind = "Ok" =>
              /\ proc.wow64 = Null
              /\ \E i \in 1..Len(reads) :
                    /\ reads[i].field = "peb"
                    /\ reads[i].addr = proc.address + offsets.eproc_peb
                    /\ reads[i].dtb = win.dtb
              /\ Bits(proc.sys_arch) = 64 => proc.proc_arch = "X64"

\* a process was built on an X64 system from offsets with eproc_wow64 = 0
C9_Witness ==
    /\ call = "try_with_eprocess" /\ offsets.eproc_wow64 = 0
    /\ proc.kind = "Ok" /\ proc.sys_arch = "X64" /\ proc.proc_arch = "X64"
    /\ Len(reads) = 6

\* C10: every process the constructors return satisfies: a non-null WoW64
\* pointer implies a process architecture narrower than the system's.
C10_Wow64ImpliesNarrower ==
    (proc.kind = "Ok" /\ proc.wow64 # Null) =>
        Bits(proc.proc_arch) < Bits(proc.sys_arch)

----------------------------------------------------------------------------
(* Properties of the connector create function. *)

\* the index of the first step of the given name in the trace, 0 if none
StepIndex(name) ==
    IF \E i \in 1..Len(trace) : trace[i].step = name
    THEN CHOOSE i \in 1..Len(trace) :
             trace[i].step = name /\ \A j \in 1..(i - 1) : trace[j].step # name
    ELSE 0

\* C11: mf_create parses the argument string before it invokes the user
\* factory; it returns a null handle whenever the string is not valid UTF-8,
\* the parsing fails or the factory fails; the factory is never invoked after
\* a failed conversion or parsing, and a non-null handle is returned only
\* when the factory succeeded; for both forms of the factory.
C11_CreateParsesFirst ==
    handle.kind # "none" =>
        /\ StepIndex("factory") # 0 =>
              /\ StepIndex("parse") # 0
              /\ StepIndex("parse") < StepIndex("factory")
              /\ \A i \in 1..(StepIndex("factory") - 1) : trace[i].ok
        /\ (\E i \in 1..Len(trace) : ~trace[i].ok) => handle = NullHandle
        /\ ~Utf8From(args, 1) => (handle = NullHandle /\ StepIndex("parse") = 0)
        /\ ~parse_ok => (handle = NullHandle /\ StepIndex("factory") = 0)
        /\ handle = SomeHandle =>
              /\ StepIndex("factory") # 0
              /\ trace[StepIndex("factory")].ok
              /\ Len(trace) = 3

\* a two-argument factory was handed the parsed arguments of a string with a
\* two-byte character and succeeded
C11_Witness ==
    /\ create_form = "two" /\ args = <<195, 169>>
    /\ handle = SomeHandle /\ Len(trace) = 3
    /\ trace[3] = Step("factory", TRUE, "Trace")

\* the read of the given field in the log of the last constructor call
\* (its index, 0 if there is none)
ReadOf(f) ==
    IF \E i \in 1..Len(reads) : reads[i].field = f
    THEN CHOOSE i \in 1..Len(reads) : reads[i].field = f
    ELSE 0

\* C13: in try_with_eprocess the reads of PID, name, DTB, WoW64 pointer and
\* PEB pointer go through a reader bound to the DTB (and the architecture) of
\* the start block; the reads of PEB.Ldr and Ldr.InLoadOrderModuleList go
\* through a reader bound to the DTB read from KPROCESS.DirectoryTableBase,
\* with the process architecture as pointer width; they use the offsets
\* (peb_ldr_x64, ldr_list_x64) exactly when the process architecture is
\* 64-bit and (peb_ldr_x86, ldr_list_x86) exactly when it is 32-bit.
C13_ReaderContexts ==
    call = "try_with_eprocess" =>
        /\ \A i \in 1..Len(reads) :
              /\ reads[i].field \in {"pid", "name", "dtb", "wow64", "peb"} =>
                    /\ reads[i].dtb = win.dtb
                    /\ reads[i].type_arch = win.arch
              /\ reads[i].field \in {"peb_ldr", "peb_module"} =>
                    /\ ReadOf("dtb") # 0 /\ ReadOf("dtb") < i
                    /\ reads[i].dtb = reads[ReadOf("dtb")].val
                    /\ reads[i].sys_arch = win.arch
                    /\ reads[i].type_arch \in {"X86", "X64"}
                    /\ proc.kind = "Ok" => reads[i].type_arch = proc.proc_arch
              /\ reads[i].field = "peb_ldr" =>
                    /\ ReadOf("peb") # 0
                    /\ Bits(reads[i].type_arch) = 64 <=>
                          reads[i].addr = reads[ReadOf("peb")].val + offsets.peb_ldr_x64
                    /\ Bits(reads[i].type_arch) = 32 <=>
                          reads[i].addr = reads[ReadOf("peb")].val + offsets.peb_ldr_x86
              /\ reads[i].field = "peb_module" =>
                    /\ ReadOf("peb_ldr") # 0
                    /\ Bits(reads[i].type_arch) = 64 <=>
                          reads[i].addr = reads[ReadOf("peb_ldr")].val + offsets.ldr_list_x64
                    /\ Bits(reads[i].type_arch) = 32 <=>
                          reads[i].addr = reads[ReadOf("peb_ldr")].val + offsets.ldr_list_x86
        /\ proc.kind = "Ok" =>
              /\ {reads[i].field : i \in 1..Len(reads)} \ {"wow64"}
                    = {"pid", "name", "dtb", "peb", "peb_ldr", "peb_module"}
              /\ reads[ReadOf("dtb")].val = proc.dtb
              /\ reads[ReadOf("peb")].val = proc.peb

\* a WoW64 process was built on an X64 system: its PEB was read through the
\* kernel's DTB, its Ldr and module list through its own DTB with the 32-bit
\* offsets
C13_Witness ==
    /\ call = "try_with_eprocess" /\ proc.kind = "Ok"
    /\ proc.sys_arch = "X64" /\ proc.proc_arch = "X86" /\ proc.wow64 # Null
    /\ Len(reads) = 7
    /\ reads[5].dtb = win.dtb /\ reads[6].dtb = proc.dtb /\ proc.dtb # win.dtb
    /\ reads[6].addr = proc.peb + offsets.peb_ldr_x86
    /\ reads[7].addr = reads[6].val + offsets.ldr_list_x86

----------------------------------------------------------------------------
(* Properties of the PEB source selection. *)

\* the index of the read of the given field in a log of reads, 0 if none
LogIndex(log, f) ==
    IF \E i \in 1..Len(log) : log[i].field = f
    THEN CHOOSE i \in 1..Len(log) : log[i].field = f
    ELSE 0

\* where the PEB pointer of the process at e is to be read, given its WoW64
\* pointer
PebSource(e, wow64) == IF wow64 = Null THEN e + offsets.eproc_peb ELSE wow64

\* a log of reads for the process at e, whose WoW64 pointer is wow64, holds
\* a read of the PEB pointer at the right place, and no read of the
\* EPROCESS.Peb field when the WoW64 pointer is not null
RightSource(log, e, wow64) ==
    /\ log[LogIndex(log, "peb")].addr = PebSource(e, wow64)
    /\ wow64 # Null =>
          \A i \in 1..Len(log) : log[i].addr # e + offsets.eproc_peb

\* the EPROCESS and the WoW64 pointer of the last try_with_eprocess
NewEprocess == reads[1].addr - offsets.eproc_pid
NewWow64 ==
    IF LogIndex(reads, "wow64") = 0 THEN Null
    ELSE reads[LogIndex(reads, "wow64")].val

\* C14: when the WoW64 pointer of a process is null its PEB pointer is read
\* at eprocess + Peb offset; when it is not null the PEB pointer is read at
\* the WoW64 address itself and the EPROCESS.Peb field is not read.
\* try_with_eprocess and the legacy first_peb_entry both do so, and on the
\* same process of the same memory they read the PEB pointer at the same
\* address.
C14_PebSourceSelection ==
    /\ (call = "try_with_eprocess" /\ LogIndex(reads, "peb") # 0) =>
          RightSource(reads, NewEprocess, NewWow64)
    /\ LogIndex(lreads, "peb") # 0 =>
          RightSource(lreads, first_peb.eprocess, lreads[1].val)
    /\ (/\ call = "try_with_eprocess" /\ LogIndex(reads, "peb") # 0
        /\ LogIndex(lreads, "peb") # 0
        /\ NewEprocess = first_peb.eprocess) =>
          reads[LogIndex(reads, "peb")].addr = lreads[LogIndex(lreads, "peb")].addr

\* both implementations built the same WoW64 process and read its PEB
\* pointer at the WoW64 address
C14_Witness ==
    /\ call = "try_with_eprocess" /\ proc.kind = "Ok" /\ first_peb.kind = "Ok"
    /\ proc.address = first_peb.eprocess /\ proc.wow64 # Null
    /\ reads[LogIndex(reads, "peb")].addr = proc.wow64
    /\ lreads[LogIndex(lreads, "peb")].addr = proc.wow64

----------------------------------------------------------------------------
(* Properties of the process lookup by name. *)

\* try_with_eprocess can build a process from the EPROCESS at e
Parsed(e) == try_with_eprocess(win, offsets, e, pmem[e]).res.kind = "Ok"

\* the positions of the list whose process can be built and has the name
\* looked for
Named ==
    {i \in 1..Len(elist.list) :
        Parsed(elist.list[i]) /\ pmem[elist.list[i]].name = wanted}

\* C12 as stated: try_with_name returns the first process of the list that
\* has the name; it returns the not-found error when no successfully parsed
\* process has the name; an entry that cannot be read is skipped.
C12_NotFoundWhenNoneNamed ==
    call = "try_with_name" =>
        /\ Named # {} =>
              /\ proc.kind = "Ok" /\ proc.name = wanted
              /\ \E i \in Named :
                    /\ proc.address = elist.list[i]
                    /\ \A j \in Named : i <= j
        /\ Named = {} => proc = NotFound

\* C12 as amended: when eprocess_list returned a list, try_with_name
\* returns the first process of the list that can be built and has the name,
\* and the not-found error when there is none; an entry that cannot be read
\* is skipped and the lookup goes on behind it.  When eprocess_list fails,
\* its error is returned and no entry is looked at.
C12_FirstNamedOfList ==
    call = "try_with_name" =>
        /\ elist.kind = "Ok" =>
              /\ Named # {} =>
                    /\ proc.kind = "Ok" /\ proc.name = wanted
                    /\ \E i \in Named :
                          /\ proc.address = elist.list[i]
                          /\ \A j \in Named : i <= j
                          /\ tried = SubSeq(elist.list, 1, i)
              /\ Named = {} => (proc = NotFound /\ tried = elist.list)
        /\ elist.kind = "Err" => (proc = ProcErr /\ tried = <<>>)

\* the first entry of the list could not be read, the second has another
\* name, the third has the name and was returned
C12_Witness ==
    /\ call = "try_with_name" /\ elist.kind = "Ok" /\ Len(elist.list) >= 3
    /\ ~Parsed(elist.list[1]) /\ pmem[elist.list[1]].name = wanted
    /\ Parsed(elist.list[2]) /\ pmem[elist.list[2]].name # wanted
    /\ proc.kind = "Ok" /\ proc.address = elist.list[3]

----------------------------------------------------------------------------
(* Properties of the module list walk. *)

\* the entries peb_list has visited follow the stored pointers from
\* peb_module on, and none behind the first is null or peb_module
FollowsLinks(l) ==
    /\ Len(l) > 0 => l[1] = peb_module
    /\ \A i \in 2..Len(l) :
          /\ l[i] = modmem[l[i - 1]]
          /\ l[i] # Null /\ l[i] # peb_module

\* C15, without the termination: what peb_list has visited, and the list it
\* returns, are the entries in visiting order with peb_module first and
\* nothing null or equal to peb_module behind it; it returns at the first
\* link that is null or peb_module, and returns an error and no list when a
\* link cannot be read.
C15_VisitsInOrder ==
    /\ Len(pebs) < MaxPebs => FollowsLinks(pebs)
    /\ peb_ret.kind = "Ok" =>
          /\ peb_ret.list = pebs
          /\ list_entry = Null \/ list_entry = peb_module
          /\ Len(pebs) < MaxPebs => list_entry = modmem[pebs[Len(pebs)]]
    /\ peb_ret.kind = "Err" =>
          /\ peb_ret.list = <<>>
          /\ mod_read_addr(list_entry) = ReadErr
    /\ peb_ret.kind = "running" =>
          (iters = 0 /\ pebs = <<>>) \/ ~is_last(list_entry)

\* C15: peb_list terminates for every content of the process's memory: the
\* loop comes to a return, with a list or with an error.
C15_PebListTerminates == <>(peb_ret.kind \in {"Ok", "Err"})

====
